---- MODULE Spec2Model ----
(***************************************************************************)
(* Model of the metric computation of src/src/server/api/routers/          *)
(* analytics.ts: calculateMonthMetrics (lines 774-834) and the way         *)
(* getPortfolioMonthlyOutlook / getWeeklyPacing build the months they      *)
(* pass to it (lines 466-477, 561-563).                                    *)
(*                                                                         *)
(* Four specifications:                                                    *)
(*   Spec        calls calculateMonthMetrics over its parameter domain;    *)
(*   SpecOutlook runs one request of getPortfolioMonthlyOutlook or         *)
(*               getWeeklyPacing against a reservation table, one async    *)
(*               callback per month under Promise.all;                     *)
(*   Spec64      calls calculateMonthMetrics on a list and on a            *)
(*               permutation of it, in IEEE-754 binary64 arithmetic;       *)
(*   SpecAnalytics runs one request of getComprehensiveAnalytics (lines    *)
(*               185-422) against the metrics query, the organization      *)
(*               lookup and the market API.                                *)
(*                                                                         *)
(* Modelling conventions                                                   *)
(*  - A JS Date is [day, ms]: the calendar day counted from 1 Jan 2024     *)
(*    (day 0) and the milliseconds since that day's midnight.  The server  *)
(*    time zone has no DST change inside the window (date-fns works on     *)
(*    local time).                                                         *)
(*  - A JS number is an exact rational [n, d], d > 0, in lowest terms;     *)
(*    d = 0 stands for the non-finite values (NaN, Infinity, -Infinity).   *)
(*    In Spec and SpecOutlook IEEE rounding is not modelled: an equality   *)
(*    of two numbers there is an equality "within floating-point epsilon"  *)
(*    of the code.  Spec64 computes the same expressions in binary64, bit  *)
(*    for bit, for the non-negative values its inputs produce.             *)
(*  - A price field (typed any in the source) is null, a Prisma Decimal    *)
(*    object or a plain JS number; the two differ in truthiness at 0.      *)
(***************************************************************************)
EXTENDS Integers, Sequences, FiniteSets, TLC

VARIABLES reservations, firstMonth, periodKind, propertyCount, metrics

\* the state of one request (SpecOutlook)
VARIABLES procedure, isMember, db, stage, pc, fetched, events, monthMetrics,
          monthlyData, completed, response

requestVars == <<procedure, isMember, db, stage, pc, fetched, events, monthMetrics,
                 monthlyData, completed, response>>

\* the two calls compared in binary64 (Spec64)
VARIABLES permuted, month64, metrics64

vars64 == <<permuted, month64, metrics64>>

\* the state of one request of getComprehensiveAnalytics (SpecAnalytics)
VARIABLES step, userOrg, rawData, outlookData, organization, marketDataResponse,
          result

analyticsVars == <<step, userOrg, rawData, outlookData, organization,
                   marketDataResponse, result>>

vars == <<reservations, firstMonth, periodKind, propertyCount, metrics, requestVars,
          vars64, analyticsVars>>

(***************************************************************************)
(* Bounds                                                                  *)
(***************************************************************************)
\* months processed per request (the source processes 12, line 468)
NumMonths == 2
\* longest reservation list built from SampleReservations
MaxRes == 2
\* largest propertyCount
MaxPropertyCount == 2

(***************************************************************************)
(* Calendar (date-fns works on the Gregorian calendar)                     *)
(***************************************************************************)
\* month index k >= 1 counts months from January 2024 (k = 1)
YearOf(k) == 2024 + ((k - 1) \div 12)

MonthOf(k) == ((k - 1) % 12) + 1

IsLeapYear(y) == (y % 4 = 0) /\ ((y % 100 # 0) \/ (y % 400 = 0))

DaysInMonth(k) ==
  LET m == MonthOf(k) IN
  IF m = 2 THEN (IF IsLeapYear(YearOf(k)) THEN 29 ELSE 28)
  ELSE IF m \in {4, 6, 9, 11} THEN 30 ELSE 31

RECURSIVE DaysBeforeMonth(_)
\* the days from 1 January 2024 to the first day of month k
DaysBeforeMonth(k) == IF k <= 1 THEN 0 ELSE DaysBeforeMonth(k - 1) + DaysInMonth(k - 1)

\* the same, tabulated for the months up to December 2028
MonthStartTable == [k \in 0..60 |-> DaysBeforeMonth(k)]

\* day number of the first day of month k
MonthStartDay(k) == MonthStartTable[k]

\* the last millisecond of a day, 23:59:59.999
EndOfDayMs == 86399999

MkDate(dayNo, msOfDay) == [day |-> dayNo, ms |-> msOfDay]

\* the date (month k, day-of-month dom) at 00:00:00.000
DateOf(k, dom) == MkDate(MonthStartDay(k) + dom - 1, 0)

(***************************************************************************)
(* date-fns                                                                *)
(***************************************************************************)
\* startOfMonth(addMonths(today, i)) for the month with index k
startOfMonth(k) == MkDate(MonthStartDay(k), 0)

\* endOfMonth(monthStart): the month's last day at 23:59:59.999
endOfMonth(k) == MkDate(MonthStartDay(k + 1) - 1, EndOfDayMs)

\* date.getTime() order
isAfter(a, b) == (a.day > b.day) \/ (a.day = b.day /\ a.ms > b.ms)

isBefore(a, b) == (a.day < b.day) \/ (a.day = b.day /\ a.ms < b.ms)

compareLocalAsc(a, b) == IF isBefore(a, b) THEN -1 ELSE IF isAfter(a, b) THEN 1 ELSE 0

Abs(i) == IF i < 0 THEN -i ELSE i

\* number of full days between the two dates, truncated toward zero
differenceInDays(dateLeft, dateRight) ==
  LET sign == compareLocalAsc(dateLeft, dateRight)
      difference == Abs(dateLeft.day - dateRight.day)
      shifted == MkDate(dateLeft.day - sign * difference, dateLeft.ms)
      isLastDayNotFull == IF compareLocalAsc(shifted, dateRight) = -sign THEN 1 ELSE 0
  IN sign * (difference - isLastDayNotFull)

(***************************************************************************)
(* JS numbers as extended rationals                                        *)
(***************************************************************************)
RECURSIVE GCD(_, _)
GCD(a, b) == IF b = 0 THEN a ELSE GCD(b, a % b)

Sign(i) == IF i < 0 THEN -1 ELSE IF i > 0 THEN 1 ELSE 0

\* the number n/d; d = 0 gives NaN (n = 0), Infinity (n > 0) or -Infinity (n < 0)
Rat(n, d) ==
  IF d = 0 THEN [n |-> Sign(n), d |-> 0]
  ELSE LET g == GCD(Abs(n), Abs(d))
       IN [n |-> Sign(d) * (n \div g), d |-> Abs(d) \div g]

FromInt(i) == [n |-> i, d |-> 1]

NaN == [n |-> 0, d |-> 0]

IsFinite(x) == x.d # 0

\* x * y of JS (common factors are cancelled before multiplying)
NumMul(x, y) ==
  LET g1 == GCD(Abs(x.n), y.d)
      g2 == GCD(Abs(y.n), x.d)
  IN IF g1 = 0 \/ g2 = 0 THEN Rat(x.n * y.n, x.d * y.d)
     ELSE Rat((x.n \div g1) * (y.n \div g2), (x.d \div g2) * (y.d \div g1))

\* x / y of JS
NumDiv(x, y) ==
  IF IsFinite(x) /\ IsFinite(y) /\ y.n # 0
    THEN NumMul(x, [n |-> Sign(y.n) * y.d, d |-> Abs(y.n)])
    ELSE Rat(x.n * y.d, x.d * y.n)

\* x + y of JS (over the least common denominator)
NumAdd(x, y) ==
  IF IsFinite(x) /\ IsFinite(y)
    THEN LET g == GCD(x.d, y.d)
         IN Rat(x.n * (y.d \div g) + y.n * (x.d \div g), (x.d \div g) * y.d)
  ELSE IF IsFinite(y) THEN x
  ELSE IF IsFinite(x) THEN y
  ELSE IF x = y THEN x ELSE NaN

\* -x of JS
NumNeg(x) == [n |-> -x.n, d |-> x.d]

\* x - y of JS
NumSub(x, y) == NumAdd(x, NumNeg(y))

(***************************************************************************)
(* Price fields                                                            *)
(***************************************************************************)
Null == [null |-> TRUE]

\* a Prisma Decimal object holding v
Decimal(v) == [repr |-> "Decimal", val |-> v]

\* a plain JS number v
PlainNumber(v) == [repr |-> "number", val |-> v]

\* if (x): null is falsy, an object is truthy, a number is truthy unless 0
Truthy(p) == (p # Null) /\ ~(p.repr = "number" /\ p.val = 0)

\* Number(x)
Number(p) == FromInt(p.val)

(***************************************************************************)
(* calculateMonthMetrics (analytics.ts 774-834)                            *)
(***************************************************************************)
\* mutant of overlapStart: the start is not clamped to the month
overlapStartUnclamped(reservation, monthStart) == reservation.startDate

\* line 794
overlapStart(reservation, monthStart) ==
  IF isAfter(reservation.startDate, monthStart) THEN reservation.startDate ELSE monthStart

\* line 795
overlapEnd(reservation, monthEnd) ==
  IF isBefore(reservation.endDate, monthEnd) THEN reservation.endDate ELSE monthEnd

\* line 798: "Only process if there's actual overlap"
hasOverlap(reservation, monthStart, monthEnd) ==
  isAfter(overlapEnd(reservation, monthEnd), overlapStart(reservation, monthStart))

\* line 799, inside the guard of line 798
nightsInMonth(reservation, monthStart, monthEnd) ==
  differenceInDays(overlapEnd(reservation, monthEnd), overlapStart(reservation, monthStart))

\* mutant of proratedRevenue: the division by the stay nights is not guarded
proratedRevenueUnguarded(price, reservation, nights) ==
  NumMul(NumDiv(Number(price),
                FromInt(differenceInDays(reservation.endDate, reservation.startDate))),
         FromInt(nights))

\* lines 805-806 and 810-811: price / stay nights * nights in the month, 0 for
\* a stay of no whole night
proratedRevenue(price, reservation, nights) ==
  LET totalReservationNights == differenceInDays(reservation.endDate, reservation.startDate)
  IN IF totalReservationNights > 0
       THEN NumMul(NumDiv(Number(price), FromInt(totalReservationNights)), FromInt(nights))
       ELSE FromInt(0)

\* lines 804-813: what one overlapping reservation adds to totalRevenue
revenueInMonth(reservation, monthStart, monthEnd) ==
  LET nights == nightsInMonth(reservation, monthStart, monthEnd) IN
  IF Truthy(reservation.nightlySubtotal)
    THEN proratedRevenue(reservation.nightlySubtotal, reservation, nights)
  ELSE IF Truthy(reservation.totalPrice)
    THEN proratedRevenue(reservation.totalPrice, reservation, nights)
  ELSE FromInt(0)

\* mutant of addReservation: a reservation without a price is skipped
addReservationSkipUnpriced(acc, reservation, monthStart, monthEnd) ==
  IF /\ hasOverlap(reservation, monthStart, monthEnd)
     /\ Truthy(reservation.nightlySubtotal) \/ Truthy(reservation.totalPrice)
    THEN [totalNights |-> acc.totalNights + nightsInMonth(reservation, monthStart, monthEnd),
          totalRevenue |-> NumAdd(acc.totalRevenue,
                                  revenueInMonth(reservation, monthStart, monthEnd))]
    ELSE acc

\* lines 789-815: one iteration of the loop over the reservations
addReservation(acc, reservation, monthStart, monthEnd) ==
  IF hasOverlap(reservation, monthStart, monthEnd)
    THEN [totalNights |-> acc.totalNights + nightsInMonth(reservation, monthStart, monthEnd),
          totalRevenue |-> NumAdd(acc.totalRevenue,
                                  revenueInMonth(reservation, monthStart, monthEnd))]
    ELSE acc

RECURSIVE sumReservations(_, _, _, _, _)
\* lines 785-815: the loop, from the i-th reservation on
sumReservations(list, i, acc, monthStart, monthEnd) ==
  IF i > Len(list) THEN acc
  ELSE sumReservations(list, i + 1, addReservation(acc, list[i], monthStart, monthEnd),
                       monthStart, monthEnd)

\* mutant of daysInMonth: the + 1 is dropped
daysInMonthNoPlusOne(monthStart, monthEnd) == differenceInDays(monthEnd, monthStart)

\* line 818
daysInMonth(monthStart, monthEnd) == differenceInDays(monthEnd, monthStart) + 1

\* line 819
totalAvailableNightsOf(monthStart, monthEnd, count) == count * daysInMonth(monthStart, monthEnd)

\* mutant of occupancyOf: guarded by the nights instead of the available nights
occupancyOfGuardedByNights(totalNights, totalAvailableNights) ==
  IF totalNights > 0
    THEN NumMul(NumDiv(FromInt(totalNights), FromInt(totalAvailableNights)), FromInt(100))
    ELSE Null

\* line 822
occupancyOf(totalNights, totalAvailableNights) ==
  IF totalAvailableNights > 0
    THEN NumMul(NumDiv(FromInt(totalNights), FromInt(totalAvailableNights)), FromInt(100))
    ELSE Null

\* mutant of adrOf: the division is not guarded
adrOfUnguarded(totalRevenue, totalNights) == NumDiv(totalRevenue, FromInt(totalNights))

\* line 823
adrOf(totalRevenue, totalNights) ==
  IF totalNights > 0 THEN NumDiv(totalRevenue, FromInt(totalNights)) ELSE Null

\* line 824
revparOf(totalRevenue, totalAvailableNights) ==
  IF totalAvailableNights > 0 THEN NumDiv(totalRevenue, FromInt(totalAvailableNights)) ELSE Null

calculateMonthMetrics(list, monthStart, monthEnd, count) ==
  LET sums == sumReservations(list, 1, [totalNights |-> 0, totalRevenue |-> FromInt(0)],
                              monthStart, monthEnd)
      totalAvailableNights == totalAvailableNightsOf(monthStart, monthEnd, count)
  IN [adr |-> adrOf(sums.totalRevenue, sums.totalNights),
      occupancy |-> occupancyOf(sums.totalNights, totalAvailableNights),
      revpar |-> revparOf(sums.totalRevenue, totalAvailableNights),
      totalNights |-> sums.totalNights,
      totalRevenue |-> sums.totalRevenue,
      totalAvailableNights |-> totalAvailableNights]

(***************************************************************************)
(* calculatePercentageChange (analytics.ts 765-771)                        *)
(***************************************************************************)
\* mutant of calculatePercentageChange: a zero baseline is not caught
calculatePercentageChangeNoZeroGuard(current, previous) ==
  IF current = Null \/ previous = Null THEN Null
  ELSE NumMul(NumDiv(NumSub(current, previous), previous), FromInt(100))

calculatePercentageChange(current, previous) ==
  IF current = Null \/ previous = Null \/ previous = FromInt(0) THEN Null
  ELSE NumMul(NumDiv(NumSub(current, previous), previous), FromInt(100))

(***************************************************************************)
(* The months of one request and the period handed to calculateMonthMetrics*)
(***************************************************************************)
\* lines 467-470: months[i] = startOfMonth(addMonths(today, i)), as a month index
MonthAt(i) == firstMonth + i - 1

\* the second Date argument: endOfMonth(monthStart) as both callers pass it
\* (lines 474, 561, 736), or the first instant of the next month for a
\* half-open period [periodStart, periodEnd)
PeriodEnd(k) == IF periodKind = "endOfMonth" THEN endOfMonth(k) ELSE startOfMonth(k + 1)

(***************************************************************************)
(* Inputs                                                                  *)
(***************************************************************************)
MkReservation(s, e, ns, tp) ==
  [startDate |-> s, endDate |-> e, nightlySubtotal |-> ns, totalPrice |-> tp]

\* the calendar dates a reservation of the grid may start or end on: the 1st,
\* 10th, 15th, 20th and last day of the months of the request and of the month
\* before and after them
GridDates(f) ==
  { DateOf(k, dom) : k \in (f - 1)..(f + NumMonths), dom \in {1, 10, 15, 20} }
  \cup { DateOf(k, DaysInMonth(k)) : k \in (f - 1)..(f + NumMonths) }

GridSubtotals == {Null, Decimal(0), PlainNumber(0), Decimal(100)}

GridPrices == {Null, Decimal(130)}

\* every reservation on the grid, the malformed ones (endDate <= startDate) included
GridReservations(f) ==
  { MkReservation(s, e, ns, tp) :
      s \in GridDates(f), e \in GridDates(f), ns \in GridSubtotals, tp \in GridPrices }

\* January 2025, May 2025
FirstMonths == {13, 17}

\* the worked examples of the specification, the degenerate price cases, a
\* malformed stay, two stays that touch January 2025 at its two ends and a
\* stay of twelve hours
SampleReservations ==
  { MkReservation(DateOf(13, 15), DateOf(14, 15), Decimal(3100), Null),
    MkReservation(DateOf(17, 20), DateOf(19, 10), Decimal(2000), Null),
    MkReservation(DateOf(13, 10), DateOf(13, 20), Decimal(100), Decimal(130)),
    MkReservation(DateOf(18, 1), DateOf(18, 15), Null, Decimal(130)),
    MkReservation(DateOf(18, 10), DateOf(18, 20), Null, Null),
    MkReservation(DateOf(13, 20), DateOf(13, 10), Decimal(100), Null),
    MkReservation(DateOf(12, 20), DateOf(13, 1), Decimal(100), Decimal(130)),
    MkReservation(DateOf(14, 1), DateOf(14, 10), Decimal(100), Null),
    MkReservation(DateOf(13, 10), MkDate(DateOf(13, 10).day, 43200000),
                  Decimal(100), Null) }

SeqsUpTo(S, n) == UNION { [1..m -> S] : m \in 0..n }

NotComputed == [computed |-> FALSE]

\* no request is running (Spec)
NoRequest ==
  /\ procedure = "none"
  /\ isMember = FALSE
  /\ db = << >>
  /\ stage = "idle"
  /\ pc = [i \in 1..NumMonths |-> "idle"]
  /\ fetched = [i \in 1..NumMonths |-> NotComputed]
  /\ events = [i \in 1..NumMonths |-> << >>]
  /\ monthMetrics = [i \in 1..NumMonths |-> NotComputed]
  /\ monthlyData = [i \in 1..NumMonths |-> NotComputed]
  /\ completed = << >>
  /\ response = NotComputed

\* no call in binary64 is made (Spec, SpecOutlook)
NoCalls64 ==
  /\ permuted = << >>
  /\ month64 = 0
  /\ metrics64 = NotComputed

\* no request of getComprehensiveAnalytics is running (Spec, SpecOutlook, Spec64)
NoAnalytics ==
  /\ step = "idle"
  /\ userOrg = NotComputed
  /\ rawData = NotComputed
  /\ outlookData = << >>
  /\ organization = NotComputed
  /\ marketDataResponse = NotComputed
  /\ result = NotComputed

\* The inputs range over the parameter domain of calculateMonthMetrics: the
\* lists and periods the two callers build, and the inputs the claims name
\* beyond them (a half-open period, propertyCount 0 or negative, a
\* reservation with endDate <= startDate).
Init ==
  /\ firstMonth \in FirstMonths
  /\ reservations \in SeqsUpTo(SampleReservations, MaxRes)
                        \cup { <<r>> : r \in GridReservations(firstMonth) }
  /\ periodKind \in {"endOfMonth", "halfOpen"}
  /\ propertyCount \in (-1)..MaxPropertyCount
  /\ metrics = [i \in 1..NumMonths |-> NotComputed]
  /\ NoRequest
  /\ NoCalls64
  /\ NoAnalytics

\* lines 561-563, 736-737: one call of calculateMonthMetrics for the i-th month
CalculateMonth(i) ==
  /\ metrics[i] = NotComputed
  /\ metrics' = [metrics EXCEPT ![i] =
                   calculateMonthMetrics(reservations, startOfMonth(MonthAt(i)),
                                         PeriodEnd(MonthAt(i)), propertyCount)]
  /\ UNCHANGED <<analyticsVars, reservations, firstMonth, periodKind, propertyCount, requestVars,
                 vars64>>

Next == \E i \in 1..NumMonths : CalculateMonth(i)

Spec == Init /\ [][Next]_vars

(***************************************************************************)
(* One request of getPortfolioMonthlyOutlook (analytics.ts 425-626) or     *)
(* getWeeklyPacing (629-762)                                               *)
(***************************************************************************)
\* rows of the reservation table
MaxRows == 2

\* line 433: today = new Date(), here the 15th of the current month at noon
today == MkDate(MonthStartDay(firstMonth) + 14, 43200000)

\* date-fns subDays / addDays
subDays(date, amount) == MkDate(date.day - amount, date.ms)

\* the month the day number falls in
MonthIndexOf(dayNo) ==
  CHOOSE k \in 1..48 : MonthStartDay(k) <= dayNo /\ dayNo < MonthStartDay(k + 1)

\* date-fns subYears(date, 1): the same day of the same month one year before,
\* the last day of that month if it is shorter (29 February)
subYears(date) ==
  LET k == MonthIndexOf(date.day)
      dom == date.day - MonthStartDay(k)
      last == DaysInMonth(k - 12) - 1
  IN MkDate(MonthStartDay(k - 12) + (IF dom < last THEN dom ELSE last), date.ms)

\* mutant of sevenDaysAgo: seven days after today
sevenDaysAhead == subDays(today, -7)

\* line 434
sevenDaysAgo == subDays(today, 7)

\* line 459: the ids of the organisation's active properties
propertyIds == 1..propertyCount

\* Prisma lte / gte on DateTime columns
lte(a, b) == ~isAfter(a, b)

gte(a, b) == ~isBefore(a, b)

\* mutant of dateClauses: without the clause for a stay that spans the month
dateClausesNoSpanning(row, monthStart, monthEnd) ==
  \/ gte(row.startDate, monthStart) /\ lte(row.startDate, monthEnd)
  \/ gte(row.endDate, monthStart) /\ lte(row.endDate, monthEnd)

\* lines 484-495: the OR of the three date clauses
dateClauses(row, monthStart, monthEnd) ==
  \/ gte(row.startDate, monthStart) /\ lte(row.startDate, monthEnd)
  \/ gte(row.endDate, monthStart) /\ lte(row.endDate, monthEnd)
  \/ isBefore(row.startDate, monthStart) /\ isAfter(row.endDate, monthEnd)

\* lines 480-496: the where clause
where(row, bookedBy, monthStart, monthEnd) ==
  /\ row.propertyId \in propertyIds
  /\ lte(row.bookedAt, bookedBy)
  /\ row.status \notin {"cancelled", "declined"}
  /\ dateClauses(row, monthStart, monthEnd)

\* lines 497-502: the select clause
select(row) ==
  [startDate |-> row.startDate, endDate |-> row.endDate,
   nightlySubtotal |-> row.nightlySubtotal, totalPrice |-> row.totalPrice]

RECURSIVE findManyFrom(_, _, _, _)
\* lines 479-504: wheelhouseReservation.findMany over the rows from the j-th on
findManyFrom(j, bookedBy, monthStart, monthEnd) ==
  IF j > Len(db) THEN << >>
  ELSE (IF where(db[j], bookedBy, monthStart, monthEnd) THEN <<select(db[j])>> ELSE << >>)
         \o findManyFrom(j + 1, bookedBy, monthStart, monthEnd)

findMany(bookedBy, monthStart, monthEnd) == findManyFrom(1, bookedBy, monthStart, monthEnd)

\* line 476: stlyMonthStart = subYears(monthStart, 1), as a month index
stlyMonth(k) == k - 12

\* lines 479-504
queryCurrent(i) == findMany(today, startOfMonth(MonthAt(i)), endOfMonth(MonthAt(i)))

\* lines 507-531
queryWeekAgo(i) == findMany(sevenDaysAgo, startOfMonth(MonthAt(i)), endOfMonth(MonthAt(i)))

\* lines 534-558
queryStly(i) ==
  findMany(subYears(today), startOfMonth(stlyMonth(MonthAt(i))),
           endOfMonth(stlyMonth(MonthAt(i))))

\* mutant of absoluteChange: a zero baseline gives null, as for the percentage
absoluteChangeNullAtZero(current, baseline) ==
  IF current # Null /\ baseline # Null /\ baseline # FromInt(0)
    THEN NumSub(current, baseline) ELSE Null

\* lines 566-568 and the like: current - baseline, null if either is null
absoluteChange(current, baseline) ==
  IF current # Null /\ baseline # Null THEN NumSub(current, baseline) ELSE Null

\* lines 594-602: the entry of one metric in the outlook
outlookMetric(current, weekAgo, stly) ==
  [currentProjection |-> current,
   stlyActual |-> stly,
   varianceVsStly |-> [absolute |-> absoluteChange(current, stly),
                       percentage |-> calculatePercentageChange(current, stly)],
   wowPickup |-> absoluteChange(current, weekAgo)]

\* lines 561-563: the three calls of calculateMonthMetrics of month i
outlookMetrics(i, lists) ==
  [currentMetrics |-> calculateMonthMetrics(lists.currentReservations,
                        startOfMonth(MonthAt(i)), endOfMonth(MonthAt(i)), propertyCount),
   weekAgoMetrics |-> calculateMonthMetrics(lists.weekAgoReservations,
                        startOfMonth(MonthAt(i)), endOfMonth(MonthAt(i)), propertyCount),
   stlyMetrics |-> calculateMonthMetrics(lists.stlyReservations,
                        startOfMonth(stlyMonth(MonthAt(i))),
                        endOfMonth(stlyMonth(MonthAt(i))), propertyCount)]

\* mutant of monthMetricsOf: the month bounds are shared by the callbacks and
\* hold the last month by the time a callback computes
outlookMetricsSharedMonth(i, lists) == outlookMetrics(NumMonths, lists)

\* lines 473-477, 561-563: the metrics the callback of month i computes, from
\* its own monthStart, monthEnd, stlyMonthStart and stlyMonthEnd
monthMetricsOf(i, lists) == outlookMetrics(i, lists)

\* lines 590-624: the object the callback of month i returns
outlookRow(i, m) ==
  [month |-> MonthAt(i),
   metrics |->
     [adr |-> outlookMetric(m.currentMetrics.adr, m.weekAgoMetrics.adr, m.stlyMetrics.adr),
      occupancy |-> outlookMetric(m.currentMetrics.occupancy, m.weekAgoMetrics.occupancy,
                                  m.stlyMetrics.occupancy),
      revpar |-> outlookMetric(m.currentMetrics.revpar, m.weekAgoMetrics.revpar,
                               m.stlyMetrics.revpar)]]

\* lines 736-737: the two calls of calculateMonthMetrics of month i
pacingMetrics(i, lists) ==
  [currentMetrics |-> calculateMonthMetrics(lists.currentReservations,
                        startOfMonth(MonthAt(i)), endOfMonth(MonthAt(i)), propertyCount),
   weekAgoMetrics |-> calculateMonthMetrics(lists.weekAgoReservations,
                        startOfMonth(MonthAt(i)), endOfMonth(MonthAt(i)), propertyCount)]

\* lines 739-758
pacingRow(i, m) ==
  [month |-> MonthAt(i),
   wowPickup |->
     [adr |-> absoluteChange(m.currentMetrics.adr, m.weekAgoMetrics.adr),
      occupancy |-> absoluteChange(m.currentMetrics.occupancy, m.weekAgoMetrics.occupancy),
      revpar |-> absoluteChange(m.currentMetrics.revpar, m.weekAgoMetrics.revpar)]]

NotFetched == [fetched |-> FALSE]

\* the three calls of calculateMonthMetrics, in the order of lines 561-563
CalculateEvents ==
  IF procedure = "getPortfolioMonthlyOutlook"
    THEN <<"calculateMonthMetrics", "calculateMonthMetrics", "calculateMonthMetrics">>
    ELSE <<"calculateMonthMetrics", "calculateMonthMetrics">>

MkRow(id, propertyId, status, bookedAt, s, e, ns, tp) ==
  [id |-> id, propertyId |-> propertyId, status |-> status, bookedAt |-> bookedAt,
   startDate |-> s, endDate |-> e, nightlySubtotal |-> ns, totalPrice |-> tp]

\* the rows a table is built from, for a request sent in month f: bookings of
\* this month, the next and the same months last year, booked before and after
\* each of the three cut-offs, of every status, of this and another
\* organisation, priced, unpriced and negative, well-formed and not
SampleRows(f) ==
  LET now == MkDate(MonthStartDay(f) + 14, 43200000) IN
  { MkRow(1, 1, "confirmed", subDays(now, 30), DateOf(f + 1, 1), DateOf(f + 1, 15),
          Decimal(1400), Null),
    MkRow(2, 1, "confirmed", subDays(now, 3), DateOf(f, 10), DateOf(f, 20),
          Decimal(100), Decimal(130)),
    MkRow(3, 1, "confirmed", subDays(now, 400), DateOf(f - 12, 10), DateOf(f - 12, 20),
          Decimal(500), Null),
    MkRow(4, 1, "confirmed", subDays(now, 360), DateOf(f - 11, 1), DateOf(f - 11, 15),
          Decimal(700), Null),
    MkRow(5, 1, "cancelled", subDays(now, 30), DateOf(f, 1), DateOf(f, 10),
          Decimal(900), Null),
    MkRow(6, 1, "confirmed", subDays(now, 30), DateOf(f, 20), DateOf(f + 1, 1),
          Decimal(110), Null),
    MkRow(7, 1, "confirmed", subDays(now, 30), DateOf(f, 20), DateOf(f, 10),
          Decimal(100), Null),
    MkRow(8, 99, "confirmed", subDays(now, 30), DateOf(f, 1), DateOf(f, 10),
          Decimal(900), Null),
    MkRow(9, 1, "confirmed", subDays(now, -1), DateOf(f, 20), DateOf(f + 1, 10),
          Decimal(100 * (DateOf(f + 1, 10).day - DateOf(f, 20).day)), Null),
    MkRow(10, 1, "confirmed", subDays(now, 3), DateOf(f + 1, 10), DateOf(f + 1, 20),
          Decimal(-50), Null),
    MkRow(11, 1, "confirmed", subDays(now, 7), DateOf(f, 1), DateOf(f, 15),
          Null, Decimal(280)),
    MkRow(12, 2, "confirmed", subDays(now, 30), DateOf(f, 20), DateOf(f + 2, 10),
          Decimal(100 * (DateOf(f + 2, 10).day - DateOf(f, 20).day)), Null),
    MkRow(13, 1, "declined", subDays(now, 400), DateOf(f - 12, 1), DateOf(f - 12, 10),
          Decimal(900), Null) }

\* the tables of at most MaxRows rows, in primary-key order
Tables(f) ==
  { t \in SeqsUpTo(SampleRows(f), MaxRows) :
      \A j \in 1..(Len(t) - 1) : t[j].id < t[j + 1].id }

InitOutlook ==
  /\ firstMonth \in FirstMonths
  /\ procedure \in {"getPortfolioMonthlyOutlook", "getWeeklyPacing"}
  /\ isMember \in BOOLEAN
  /\ propertyCount \in 0..MaxPropertyCount
  /\ db \in Tables(firstMonth)
  /\ stage = "start"
  /\ pc = [i \in 1..NumMonths |-> "idle"]
  /\ fetched = [i \in 1..NumMonths |->
                  [currentReservations |-> NotFetched, weekAgoReservations |-> NotFetched,
                   stlyReservations |-> NotFetched]]
  /\ events = [i \in 1..NumMonths |-> << >>]
  /\ monthMetrics = [i \in 1..NumMonths |-> NotComputed]
  /\ monthlyData = [i \in 1..NumMonths |-> NotComputed]
  /\ completed = << >>
  /\ response = NotComputed
  /\ reservations = << >>
  /\ periodKind = "endOfMonth"
  /\ metrics = [i \in 1..NumMonths |-> NotComputed]
  /\ NoCalls64
  /\ NoAnalytics

\* lines 431-477: the membership check, the property query, the early return
\* and the start of the callbacks, each of which runs up to its first await
Start ==
  /\ stage = "start"
  /\ IF ~isMember
       THEN /\ stage' = "threw"
            /\ response' = [error |-> "Organization not found or access denied"]
            /\ UNCHANGED pc
       ELSE IF propertyCount = 0
         THEN /\ stage' = "returned"
              /\ response' = << >>
              /\ UNCHANGED pc
         ELSE /\ stage' = "months"
              /\ pc' = [i \in 1..NumMonths |-> "currentReservations"]
              /\ UNCHANGED response
  /\ UNCHANGED <<analyticsVars, vars64, reservations, firstMonth, periodKind, propertyCount, metrics,
                 procedure, isMember, db, fetched, events, monthMetrics, monthlyData, completed>>

\* lines 479-507: the current query of month i completes and the callback
\* issues the week-ago query
CurrentFetched(i) ==
  /\ stage = "months"
  /\ pc[i] = "currentReservations"
  /\ fetched' = [fetched EXCEPT ![i].currentReservations = queryCurrent(i)]
  /\ events' = [events EXCEPT ![i] = Append(@, "currentReservations")]
  /\ pc' = [pc EXCEPT ![i] = "weekAgoReservations"]
  /\ UNCHANGED <<analyticsVars, vars64, reservations, firstMonth, periodKind, propertyCount, metrics,
                 procedure, isMember, db, stage, monthMetrics, monthlyData, completed, response>>

\* the callback of month i computes its metrics and its row and resolves
\* (lines 560-624, 735-758), in the turn in which its last query completed
Finish(i, lists) ==
  LET m == IF procedure = "getPortfolioMonthlyOutlook"
             THEN monthMetricsOf(i, lists) ELSE pacingMetrics(i, lists)
  IN /\ monthMetrics' = [monthMetrics EXCEPT ![i] = m]
     /\ monthlyData' = [monthlyData EXCEPT ![i] =
                          IF procedure = "getPortfolioMonthlyOutlook"
                            THEN outlookRow(i, m) ELSE pacingRow(i, m)]
     /\ completed' = Append(completed, i)
     /\ pc' = [pc EXCEPT ![i] = "done"]

\* mutant of WeekAgoFetched: the outlook does not await its STLY query and
\* computes when the week-ago query completes
WeekAgoFetchedNoStlyAwait(i) ==
  /\ stage = "months"
  /\ pc[i] = "weekAgoReservations"
  /\ LET lists == [fetched[i] EXCEPT !.weekAgoReservations = queryWeekAgo(i)] IN
       /\ fetched' = [fetched EXCEPT ![i] = lists]
       /\ Finish(i, [lists EXCEPT !.stlyReservations = << >>])
       /\ events' = [events EXCEPT ![i] =
                       Append(@, "weekAgoReservations") \o CalculateEvents]
  /\ UNCHANGED <<analyticsVars, vars64, reservations, firstMonth, periodKind, propertyCount, metrics,
                 procedure, isMember, db, stage, response>>

\* lines 507-534 / 708-737: the week-ago query of month i completes; the
\* outlook issues the STLY query, the pacing computes
WeekAgoFetched(i) ==
  /\ stage = "months"
  /\ pc[i] = "weekAgoReservations"
  /\ LET lists == [fetched[i] EXCEPT !.weekAgoReservations = queryWeekAgo(i)] IN
       /\ fetched' = [fetched EXCEPT ![i] = lists]
       /\ IF procedure = "getPortfolioMonthlyOutlook"
            THEN /\ pc' = [pc EXCEPT ![i] = "stlyReservations"]
                 /\ events' = [events EXCEPT ![i] = Append(@, "weekAgoReservations")]
                 /\ UNCHANGED <<monthMetrics, monthlyData, completed>>
            ELSE /\ Finish(i, lists)
                 /\ events' = [events EXCEPT ![i] =
                                 Append(@, "weekAgoReservations") \o CalculateEvents]
  /\ UNCHANGED <<analyticsVars, vars64, reservations, firstMonth, periodKind, propertyCount, metrics,
                 procedure, isMember, db, stage, response>>

\* lines 534-624: the STLY query of month i completes and the callback computes
StlyFetched(i) ==
  /\ stage = "months"
  /\ pc[i] = "stlyReservations"
  /\ LET lists == [fetched[i] EXCEPT !.stlyReservations = queryStly(i)] IN
       /\ fetched' = [fetched EXCEPT ![i] = lists]
       /\ Finish(i, lists)
       /\ events' = [events EXCEPT ![i] = Append(@, "stlyReservations") \o CalculateEvents]
  /\ UNCHANGED <<analyticsVars, vars64, reservations, firstMonth, periodKind, propertyCount, metrics,
                 procedure, isMember, db, stage, response>>

\* lines 473, 626: Promise.all resolves with the rows in the order of months
\* and the procedure returns them
Return ==
  /\ stage = "months"
  /\ \A i \in 1..NumMonths : pc[i] = "done"
  /\ response' = [i \in 1..NumMonths |-> monthlyData[i]]
  /\ stage' = "returned"
  /\ UNCHANGED <<analyticsVars, vars64, reservations, firstMonth, periodKind, propertyCount, metrics,
                 procedure, isMember, db, pc, fetched, events, monthMetrics, monthlyData, completed>>

NextOutlook ==
  \/ Start
  \/ \E i \in 1..NumMonths : CurrentFetched(i)
  \/ \E i \in 1..NumMonths : WeekAgoFetched(i)
  \/ \E i \in 1..NumMonths : StlyFetched(i)
  \/ Return

SpecOutlook == InitOutlook /\ [][NextOutlook]_vars

(***************************************************************************)
(* Vocabulary of the claims: what the specification expects, in whole days *)
(* over the half-open month [first of month k, first of month k + 1)       *)
(***************************************************************************)
Computed(i) == metrics[i] # NotComputed

\* the period is passed as both callers pass it (lines 474, 561, 736)
CallerPeriod == periodKind = "endOfMonth"

\* the call is one the two procedures make: the period as above and
\* propertyCount = activeProperties.length, positive after line 462
AsCalled == CallerPeriod /\ propertyCount >= 1

Single == Len(reservations) = 1

TheReservation == reservations[1]

\* endDate is after startDate and both are calendar dates (midnight)
WellFormed(r) ==
  /\ isAfter(r.endDate, r.startDate)
  /\ r.startDate.ms = 0 /\ r.endDate.ms = 0

StayNights(r) == r.endDate.day - r.startDate.day

MaxOf(a, b) == IF a > b THEN a ELSE b

MinOf(a, b) == IF a < b THEN a ELSE b

ExpectedNights(r, k) ==
  LET lo == MaxOf(r.startDate.day, MonthStartDay(k))
      hi == MinOf(r.endDate.day, MonthStartDay(k + 1))
  IN IF hi > lo THEN hi - lo ELSE 0

\* a price is present; a nightlySubtotal that is the plain number 0 is left to
\* C4, which is about the choice between the two fields
HasPrice(r) ==
  /\ r.nightlySubtotal # Null \/ r.totalPrice # Null
  /\ r.nightlySubtotal # PlainNumber(0)

AuthoritativePrice(r) ==
  IF r.nightlySubtotal # Null THEN r.nightlySubtotal.val ELSE r.totalPrice.val

ExpectedRevenue(r, k) == Rat(AuthoritativePrice(r) * ExpectedNights(r, k), StayNights(r))

\* the reservation lies inside the two adjacent months k, k + 1
CoveredByPair(r, k) ==
  /\ r.startDate.day >= MonthStartDay(k)
  /\ r.endDate.day <= MonthStartDay(k + 2)

(***************************************************************************)
(* C1 - conservation: for a reservation with endDate after startDate and   *)
(* two adjacent months that cover its whole range, each passed as          *)
(* (monthStart, endOfMonth(monthStart)), the nights of the two months sum  *)
(* to the stay nights and the revenue of the two months sums to the        *)
(* authoritative price.                                                    *)
(***************************************************************************)
C1_Conservation ==
  \A i \in 1..(NumMonths - 1) :
    ( /\ AsCalled /\ Single /\ Computed(i) /\ Computed(i + 1)
      /\ WellFormed(TheReservation) /\ HasPrice(TheReservation)
      /\ CoveredByPair(TheReservation, MonthAt(i)) )
    => /\ metrics[i].totalNights + metrics[i + 1].totalNights = StayNights(TheReservation)
       /\ NumAdd(metrics[i].totalRevenue, metrics[i + 1].totalRevenue)
            = FromInt(AuthoritativePrice(TheReservation))

(***************************************************************************)
(* C2 - a reservation that overlaps the month is counted the whole days    *)
(* between max(startDate, first of month) and min(endDate, first of next   *)
(* month) and price / stay nights x those nights; Jan 15 - Feb 15 with     *)
(* nightlySubtotal 3100 gets 17 nights and 1700 for January.               *)
(***************************************************************************)
C2_Example == MkReservation(DateOf(13, 15), DateOf(14, 15), Decimal(3100), Null)

C2_OverlapAllocation ==
  \A i \in 1..NumMonths :
    ( /\ AsCalled /\ Single /\ Computed(i)
      /\ WellFormed(TheReservation) /\ HasPrice(TheReservation)
      /\ ExpectedNights(TheReservation, MonthAt(i)) > 0 )
    => /\ metrics[i].totalNights = ExpectedNights(TheReservation, MonthAt(i))
       /\ metrics[i].totalRevenue = ExpectedRevenue(TheReservation, MonthAt(i))
       /\ (TheReservation = C2_Example /\ MonthAt(i) = 13)
            => (metrics[i].totalNights = 17 /\ metrics[i].totalRevenue = FromInt(1700))

(***************************************************************************)
(* C3 - a reservation whose range contains the whole month gets the        *)
(* month's calendar-day count as nights and the prorated share of its      *)
(* price; May 20 - Jul 10 with nightlySubtotal 2000 gets 30 nights and     *)
(* 1200 for June.                                                          *)
(***************************************************************************)
C3_Example == MkReservation(DateOf(17, 20), DateOf(19, 10), Decimal(2000), Null)

ContainsMonth(r, k) ==
  /\ r.startDate.day <= MonthStartDay(k)
  /\ r.endDate.day >= MonthStartDay(k + 1)

C3_WholeMonthProrated ==
  \A i \in 1..NumMonths :
    ( /\ AsCalled /\ Single /\ Computed(i) /\ HasPrice(TheReservation)
      /\ ContainsMonth(TheReservation, MonthAt(i)) )
    => /\ metrics[i].totalNights = DaysInMonth(MonthAt(i))
       /\ metrics[i].totalRevenue
            = Rat(AuthoritativePrice(TheReservation) * DaysInMonth(MonthAt(i)),
                  StayNights(TheReservation))
       /\ (TheReservation = C3_Example /\ MonthAt(i) = 18)
            => (metrics[i].totalNights = 30 /\ metrics[i].totalRevenue = FromInt(1200))

(***************************************************************************)
(* C4 - revenue field precedence: when nightlySubtotal is non-null,        *)
(* whatever its value, the allocated revenue is derived from it alone and  *)
(* totalPrice has no influence.                                            *)
(***************************************************************************)
WithoutTotalPrice(r) == [r EXCEPT !.totalPrice = Null]

C4_SubtotalPrecedence ==
  \A i \in 1..NumMonths :
    ( /\ AsCalled /\ Single /\ Computed(i) /\ TheReservation.nightlySubtotal # Null )
    => metrics[i].totalRevenue
         = calculateMonthMetrics(<<WithoutTotalPrice(TheReservation)>>,
                                 startOfMonth(MonthAt(i)), PeriodEnd(MonthAt(i)),
                                 propertyCount).totalRevenue

(***************************************************************************)
(* C5 - a reservation adds a positive number of nights to a month if and   *)
(* only if its half-open range [startDate, endDate) meets that calendar    *)
(* month.                                                                  *)
(***************************************************************************)
Intersects(r, k) ==
  /\ WellFormed(r)
  /\ r.startDate.day < MonthStartDay(k + 1)
  /\ r.endDate.day > MonthStartDay(k)

C5_ContributesIffOverlap ==
  \A i \in 1..NumMonths :
    ( AsCalled /\ Single /\ Computed(i) )
    => ( (metrics[i].totalNights > 0) <=> Intersects(TheReservation, MonthAt(i)) )

(***************************************************************************)
(* C6 - no boundary double-count: a reservation whose endDate equals the   *)
(* period start, or whose startDate equals the period end (the first       *)
(* instant of the next month), adds zero nights and zero revenue.          *)
(***************************************************************************)
TouchesBoundaryOnly(r, k) ==
  \/ r.endDate = startOfMonth(k)
  \/ r.startDate = startOfMonth(k + 1)

C6_NoBoundaryDoubleCount ==
  \A i \in 1..NumMonths :
    ( /\ Computed(i) /\ Len(reservations) >= 1
      /\ \A j \in 1..Len(reservations) : TouchesBoundaryOnly(reservations[j], MonthAt(i)) )
    => /\ metrics[i].totalNights = 0
       /\ metrics[i].totalRevenue = FromInt(0)

\* a month has been computed from two priced stays, one ending on its first
\* day and one starting on the first day of the next month
C6_Witness ==
  \E i \in 1..NumMonths :
    /\ Computed(i) /\ AsCalled /\ Len(reservations) = 2
    /\ \A j \in 1..2 : /\ WellFormed(reservations[j])
                        /\ reservations[j].nightlySubtotal = Decimal(100)
    /\ reservations[1].endDate = startOfMonth(MonthAt(i))
    /\ reservations[2].startDate = startOfMonth(MonthAt(i) + 1)

(***************************************************************************)
(* C7 - a reservation that lies inside the month (startDate on or after    *)
(* the first of the month, endDate on or before the first of the next      *)
(* month) gets its full stay nights and its full authoritative price.      *)
(***************************************************************************)
InsideMonth(r, k) ==
  /\ WellFormed(r)
  /\ r.startDate.day >= MonthStartDay(k)
  /\ r.endDate.day <= MonthStartDay(k + 1)

C7_ContainedGetsFullStay ==
  \A i \in 1..NumMonths :
    ( /\ AsCalled /\ Single /\ Computed(i) /\ HasPrice(TheReservation)
      /\ InsideMonth(TheReservation, MonthAt(i)) )
    => /\ metrics[i].totalNights = StayNights(TheReservation)
       /\ metrics[i].totalRevenue = FromInt(AuthoritativePrice(TheReservation))

(***************************************************************************)
(* C8 - totalAvailableNights.  As claimed: propertyCount x the calendar    *)
(* days of the period, whether the month is passed as (monthStart,         *)
(* endOfMonth(monthStart)) or as a half-open period.                       *)
(***************************************************************************)
C8_AvailableNightsAnyPeriod ==
  \A i \in 1..NumMonths :
    ( Computed(i) /\ propertyCount >= 0 )
    => metrics[i].totalAvailableNights = propertyCount * DaysInMonth(MonthAt(i))

\* C8 as amended: propertyCount x the calendar days of the month when the
\* month is passed as (monthStart, endOfMonth(monthStart)), as every caller
\* passes it; one day more per property when the period end is the first
\* instant of the next month (a half-open period).
C8_AvailableNights ==
  \A i \in 1..NumMonths :
    Computed(i) =>
      /\ CallerPeriod
           => metrics[i].totalAvailableNights = propertyCount * DaysInMonth(MonthAt(i))
      /\ ~CallerPeriod
           => metrics[i].totalAvailableNights
                = propertyCount * (DaysInMonth(MonthAt(i)) + 1)

\* February 2025 has been computed for two properties, passed as the callers do
C8_Witness ==
  \E i \in 1..NumMonths :
    /\ Computed(i) /\ AsCalled /\ propertyCount = 2 /\ MonthAt(i) = 14
    /\ metrics[i].totalAvailableNights = 56

(***************************************************************************)
(* C9 - the derived metrics.  As claimed: occupancy = totalNights /        *)
(* totalAvailableNights x 100 and revpar = totalRevenue /                  *)
(* totalAvailableNights, each null exactly when totalAvailableNights is 0, *)
(* adr = totalRevenue / totalNights, null exactly when totalNights is 0,   *)
(* and no metric is NaN or infinite.                                       *)
(***************************************************************************)
\* the number x equals a / b for the number a and the integer b # 0
IsQuotient(x, a, b) == IsFinite(x) /\ x.n * a.d * b = a.n * x.d

MetricsFinite(m) ==
  /\ IsFinite(m.totalRevenue)
  /\ m.adr # Null => IsFinite(m.adr)
  /\ m.occupancy # Null => IsFinite(m.occupancy)
  /\ m.revpar # Null => IsFinite(m.revpar)

MetricsValues(m) ==
  /\ m.occupancy # Null
       => IsQuotient(m.occupancy, FromInt(m.totalNights * 100), m.totalAvailableNights)
  /\ m.revpar # Null => IsQuotient(m.revpar, m.totalRevenue, m.totalAvailableNights)
  /\ m.adr # Null => IsQuotient(m.adr, m.totalRevenue, m.totalNights)
  /\ (m.adr = Null) <=> (m.totalNights = 0)

C9_NullExactlyAtZero ==
  \A i \in 1..NumMonths :
    Computed(i) =>
      /\ MetricsValues(metrics[i])
      /\ MetricsFinite(metrics[i])
      /\ (metrics[i].occupancy = Null) <=> (metrics[i].totalAvailableNights = 0)
      /\ (metrics[i].revpar = Null) <=> (metrics[i].totalAvailableNights = 0)

\* C9 as amended: occupancy and revpar are null exactly when
\* totalAvailableNights is not positive (0, or negative for a negative
\* propertyCount); the rest as claimed.
C9_DerivedMetrics ==
  \A i \in 1..NumMonths :
    Computed(i) =>
      /\ MetricsValues(metrics[i])
      /\ MetricsFinite(metrics[i])
      /\ (metrics[i].occupancy = Null) <=> (metrics[i].totalAvailableNights <= 0)
      /\ (metrics[i].revpar = Null) <=> (metrics[i].totalAvailableNights <= 0)

\* two reservations have been summed into non-null metrics
C9_Witness ==
  \E i \in 1..NumMonths :
    /\ Computed(i) /\ Len(reservations) = 2
    /\ metrics[i].totalNights > 0 /\ metrics[i].totalRevenue.n > 0
    /\ metrics[i].adr # Null /\ metrics[i].occupancy # Null /\ metrics[i].revpar # Null

(***************************************************************************)
(* C10 - with an empty reservation list the call returns totalNights 0,    *)
(* totalRevenue 0, adr null, occupancy and revpar null for propertyCount 0 *)
(* and both 0 for a positive propertyCount.  (The call cannot throw: the   *)
(* loop body is not entered and the three divisions are guarded.)          *)
(***************************************************************************)
C10_EmptyList ==
  \A i \in 1..NumMonths :
    ( reservations = << >> /\ Computed(i) ) =>
      /\ metrics[i].totalNights = 0
      /\ metrics[i].totalRevenue = FromInt(0)
      /\ metrics[i].adr = Null
      /\ propertyCount = 0
           => (metrics[i].occupancy = Null /\ metrics[i].revpar = Null)
      /\ propertyCount > 0
           => (metrics[i].occupancy = FromInt(0) /\ metrics[i].revpar = FromInt(0))

\* the empty list has been aggregated for a positive propertyCount
C10_Witness ==
  \E i \in 1..NumMonths :
    /\ reservations = << >> /\ Computed(i) /\ propertyCount > 0
    /\ metrics[i].occupancy = FromInt(0)

(***************************************************************************)
(* IEEE-754 binary64, the JS number type of totalRevenue and the metrics   *)
(* (analytics.ts 786, 806-812, 822-824), for values >= 0 in the normal     *)
(* range                                                                   *)
(***************************************************************************)
\* binary digits of the significand of a binary64 number
SignificandBits == 53

\* a natural number of any size is a sequence of limbs of LimbBits binary
\* digits, least significant first
LimbBits == 16

LimbBase == 2^LimbBits

Limb(s, j) == IF j <= Len(s) THEN s[j] ELSE 0

RECURSIVE BigNorm(_)
\* the number without its most significant zero limbs
BigNorm(s) == IF s = << >> \/ s[Len(s)] # 0 THEN s ELSE BigNorm(SubSeq(s, 1, Len(s) - 1))

BigFromNat(n) == BigNorm(<<n % LimbBase, n \div LimbBase>>)

RECURSIVE BigMulFrom(_, _, _, _)
BigMulFrom(s, j, n, carry) ==
  IF j > Len(s) THEN (IF carry = 0 THEN << >> ELSE <<carry>>)
  ELSE LET t == s[j] * n + carry
       IN <<t % LimbBase>> \o BigMulFrom(s, j + 1, n, t \div LimbBase)

\* s x n for a natural number n < 2^13
BigMulSmall(s, n) == BigNorm(BigMulFrom(s, 1, n, 0))

RECURSIVE BigDivFrom(_, _, _, _)
BigDivFrom(s, j, n, rem) ==
  IF j = 0 THEN [q |-> << >>, r |-> rem]
  ELSE LET t == rem * LimbBase + s[j]
           low == BigDivFrom(s, j - 1, n, t % n)
       IN [q |-> Append(low.q, t \div n), r |-> low.r]

\* quotient and remainder of s by a natural number 0 < n < 2^13
BigDivSmall(s, n) ==
  LET d == BigDivFrom(s, Len(s), n, 0) IN [q |-> BigNorm(d.q), r |-> d.r]

RECURSIVE BigAddFrom(_, _, _, _)
BigAddFrom(a, b, j, carry) ==
  IF j > Len(a) /\ j > Len(b) THEN (IF carry = 0 THEN << >> ELSE <<carry>>)
  ELSE LET t == Limb(a, j) + Limb(b, j) + carry
       IN <<t % LimbBase>> \o BigAddFrom(a, b, j + 1, t \div LimbBase)

BigAdd(a, b) == BigNorm(BigAddFrom(a, b, 1, 0))

\* s x 2^k
BigShiftLeft(s, k) ==
  IF s = << >> THEN << >>
  ELSE [j \in 1..(k \div LimbBits) |-> 0] \o BigMulSmall(s, 2^(k % LimbBits))

\* s \div 2^k, and whether a non-zero rest was shifted out
BigShiftRight(s, k) ==
  LET drop == k \div LimbBits
      d == BigDivSmall(SubSeq(s, drop + 1, Len(s)), 2^(k % LimbBits))
  IN [q |-> d.q,
      rest |-> d.r # 0 \/ \E j \in 1..drop : Limb(s, j) # 0]

\* the number of binary digits of s
BigBitLen(s) ==
  IF s = << >> THEN 0
  ELSE LimbBits * (Len(s) - 1)
         + (CHOOSE k \in 1..LimbBits : 2^(k - 1) <= s[Len(s)] /\ s[Len(s)] < 2^k)

\* a binary64 number >= 0 is sig x 2^exp with sig of exactly SignificandBits
\* binary digits, or zero
Zero64 == [sig |-> << >>, exp |-> 0]

\* round to nearest, ties to even, of s x 2^exp (plus a non-zero rest below
\* the last digit of s if sticky)
Round64(s, exp, sticky) ==
  LET L == BigBitLen(s) IN
  IF L = 0 THEN Zero64
  ELSE IF L <= SignificandBits
    THEN [sig |-> BigShiftLeft(s, SignificandBits - L), exp |-> exp - (SignificandBits - L)]
  ELSE LET k == L - SignificandBits
           upper == BigShiftRight(s, k - 1)
           guard == Limb(upper.q, 1) % 2
           keep == BigShiftRight(upper.q, 1).q
           rest == sticky \/ upper.rest
           roundUp == guard = 1 /\ (rest \/ Limb(keep, 1) % 2 = 1)
           up == BigAdd(keep, <<1>>)
       IN IF ~roundUp THEN [sig |-> keep, exp |-> exp + k]
          ELSE IF BigBitLen(up) = SignificandBits THEN [sig |-> up, exp |-> exp + k]
          ELSE [sig |-> BigShiftRight(up, 1).q, exp |-> exp + k + 1]

\* the double of a natural number
FromNat64(n) == Round64(BigFromNat(n), 0, FALSE)

\* x * n of JS for a double x >= 0 and a natural number n
Times64(x, n) == Round64(BigMulSmall(x.sig, n), x.exp, FALSE)

\* x / n of JS for a double x >= 0 and a natural number n > 0
Over64(x, n) ==
  LET d == BigDivSmall(BigShiftLeft(x.sig, LimbBits), n)
  IN Round64(d.q, x.exp - LimbBits, d.r # 0)

\* x + y of JS for doubles x, y >= 0
Plus64(x, y) ==
  IF x = Zero64 THEN y
  ELSE IF y = Zero64 THEN x
  ELSE LET e == IF x.exp < y.exp THEN x.exp ELSE y.exp
       IN Round64(BigAdd(BigShiftLeft(x.sig, x.exp - e), BigShiftLeft(y.sig, y.exp - e)),
                  e, FALSE)

(***************************************************************************)
(* calculateMonthMetrics (analytics.ts 774-834) in binary64                *)
(***************************************************************************)
\* Number(x) for a price that is a natural number
Number64(p) == FromNat64(p.val)

\* lines 805-806 and 810-811
proratedRevenue64(price, reservation, nights) ==
  LET totalReservationNights == differenceInDays(reservation.endDate, reservation.startDate)
  IN IF totalReservationNights > 0
       THEN Times64(Over64(Number64(price), totalReservationNights), nights)
       ELSE Zero64

\* lines 804-813
revenueInMonth64(reservation, monthStart, monthEnd) ==
  LET nights == nightsInMonth(reservation, monthStart, monthEnd) IN
  IF Truthy(reservation.nightlySubtotal)
    THEN proratedRevenue64(reservation.nightlySubtotal, reservation, nights)
  ELSE IF Truthy(reservation.totalPrice)
    THEN proratedRevenue64(reservation.totalPrice, reservation, nights)
  ELSE Zero64

\* mutant of addReservation64: totalNights is assigned, not added to
addReservation64AssignNights(acc, reservation, monthStart, monthEnd) ==
  IF hasOverlap(reservation, monthStart, monthEnd)
    THEN [totalNights |-> nightsInMonth(reservation, monthStart, monthEnd),
          totalRevenue |-> Plus64(acc.totalRevenue,
                                  revenueInMonth64(reservation, monthStart, monthEnd))]
    ELSE acc

\* lines 789-815: one iteration of the loop
addReservation64(acc, reservation, monthStart, monthEnd) ==
  IF hasOverlap(reservation, monthStart, monthEnd)
    THEN [totalNights |-> acc.totalNights + nightsInMonth(reservation, monthStart, monthEnd),
          totalRevenue |-> Plus64(acc.totalRevenue,
                                  revenueInMonth64(reservation, monthStart, monthEnd))]
    ELSE acc

RECURSIVE sumReservations64(_, _, _, _, _)
\* lines 785-815: the loop, from the i-th reservation on
sumReservations64(list, i, acc, monthStart, monthEnd) ==
  IF i > Len(list) THEN acc
  ELSE sumReservations64(list, i + 1, addReservation64(acc, list[i], monthStart, monthEnd),
                         monthStart, monthEnd)

\* lines 774-834
calculateMonthMetrics64(list, monthStart, monthEnd, count) ==
  LET sums == sumReservations64(list, 1, [totalNights |-> 0, totalRevenue |-> Zero64],
                                monthStart, monthEnd)
      totalAvailableNights == totalAvailableNightsOf(monthStart, monthEnd, count)
  IN [adr |-> IF sums.totalNights > 0
                THEN Over64(sums.totalRevenue, sums.totalNights) ELSE Null,
      occupancy |-> IF totalAvailableNights > 0
                      THEN Times64(Over64(FromNat64(sums.totalNights), totalAvailableNights),
                                   100)
                      ELSE Null,
      revpar |-> IF totalAvailableNights > 0
                   THEN Over64(sums.totalRevenue, totalAvailableNights) ELSE Null,
      totalNights |-> sums.totalNights,
      totalRevenue |-> sums.totalRevenue,
      totalAvailableNights |-> totalAvailableNights]

(***************************************************************************)
(* Two calls of calculateMonthMetrics, on a list and on a permutation      *)
(***************************************************************************)
\* longest list of Spec64
MaxLen64 == 3

\* stays of three nights priced 100 with one, two and three of their nights
\* counted in month f, and a stay of a month priced 3100
Pool64(f) ==
  << MkReservation(MkDate(MonthStartDay(f) - 2, 0), MkDate(MonthStartDay(f) + 1, 0),
                   Decimal(100), Null),
     MkReservation(MkDate(MonthStartDay(f) - 1, 0), MkDate(MonthStartDay(f) + 2, 0),
                   Decimal(100), Null),
     MkReservation(DateOf(f, 10), DateOf(f, 13), Decimal(100), Null),
     MkReservation(DateOf(f, 15), DateOf(f + 1, 15), Null, Decimal(3100)) >>

\* the lists of at most MaxLen64 reservations of the pool, in the pool's order
Lists64(f) ==
  UNION { { [j \in 1..n |-> Pool64(f)[ix[j]]] :
              ix \in { g \in [1..n -> 1..Len(Pool64(f))] :
                         \A j \in 1..(n - 1) : g[j] <= g[j + 1] } } :
          n \in 0..MaxLen64 }

\* the lists that hold the elements of list in another or the same order
PermutationsOf(list) ==
  { [j \in 1..Len(list) |-> list[p[j]]] :
      p \in { g \in [1..Len(list) -> 1..Len(list)] :
                \A a, b \in 1..Len(list) : a # b => g[a] # g[b] } }

Init64 ==
  /\ firstMonth \in FirstMonths
  /\ month64 \in 1..NumMonths
  /\ propertyCount \in 1..MaxPropertyCount
  /\ reservations \in Lists64(firstMonth)
  /\ permuted \in PermutationsOf(reservations)
  /\ metrics64 = [given |-> NotComputed, permuted |-> NotComputed]
  /\ periodKind = "endOfMonth"
  /\ metrics = [i \in 1..NumMonths |-> NotComputed]
  /\ NoRequest
  /\ NoAnalytics

\* a call of calculateMonthMetrics on the list
Calculate64 ==
  /\ metrics64.given = NotComputed
  /\ metrics64' = [metrics64 EXCEPT !.given =
                     calculateMonthMetrics64(reservations, startOfMonth(MonthAt(month64)),
                                             endOfMonth(MonthAt(month64)), propertyCount)]
  /\ UNCHANGED <<analyticsVars, reservations, firstMonth, periodKind, propertyCount, metrics, requestVars,
                 permuted, month64>>

\* a call of calculateMonthMetrics on the permuted list
CalculatePermuted64 ==
  /\ metrics64.permuted = NotComputed
  /\ metrics64' = [metrics64 EXCEPT !.permuted =
                     calculateMonthMetrics64(permuted, startOfMonth(MonthAt(month64)),
                                             endOfMonth(MonthAt(month64)), propertyCount)]
  /\ UNCHANGED <<analyticsVars, reservations, firstMonth, periodKind, propertyCount, metrics, requestVars,
                 permuted, month64>>

Next64 == Calculate64 \/ CalculatePermuted64

Spec64 == Init64 /\ [][Next64]_vars

(***************************************************************************)
(* One request of getComprehensiveAnalytics (analytics.ts 185-422)         *)
(*                                                                         *)
(* The outcome of an awaited call is a record: [error |-> ...] when the    *)
(* promise rejects, the resolved value otherwise.  A JS string is          *)
(* [string |-> s]; the date string of a breakdown item is the calendar     *)
(* date it spells, [month |-> k, dom |-> d], or [garbage |-> TRUE].  The   *)
(* console.log calls change no state and are left out; the one that can    *)
(* throw (line 234, format of the first rows' MonthYear) does not, the     *)
(* rows' MonthYear being valid dates.                                      *)
(***************************************************************************)
\* rows returned by the metrics query
MaxMetricRows == 2
\* items of the market API's breakdown
MaxBreakdown == 2

JsString(s) == [string |-> s]

Undefined == [undefined |-> TRUE]

InvalidDate == [invalid |-> TRUE]

\* if (x) for a string or null: null and "" are falsy
TruthyString(x) == x # Null /\ x.string # ""

\* new Date(text) for a date string
newDate(text) ==
  IF "garbage" \in DOMAIN text THEN InvalidDate ELSE DateOf(text.month, text.dom)

\* Date.prototype.toISOString(): the text of the instant
toISOString(date) == [iso |-> <<date.day, date.ms>>]

\* format(date, 'yyyy-MM') of a valid date: the month it falls in
monthKey(date) == MonthIndexOf(date.day)

\* lines 246-251: x === null ? null : Number(x)
numberOrNull(x) == IF x = Null THEN Null ELSE Number(x)

\* lines 244-252: rawData.map(row => ...)
transformRows(rows) ==
  [i \in 1..Len(rows) |->
     [MonthYear |-> rows[i].MonthYear,
      Current_ADR |-> numberOrNull(rows[i].Current_ADR),
      STLY_ADR |-> numberOrNull(rows[i].STLY_ADR),
      CurrentUserOccupancy |-> numberOrNull(rows[i].CurrentUserOccupancy),
      CurrentUserSTLYOccupancy |-> numberOrNull(rows[i].CurrentUserSTLYOccupancy),
      CurrentUserRevPAR |-> numberOrNull(rows[i].CurrentUserRevPAR),
      CurrentUserSTLYRevPAR |-> numberOrNull(rows[i].CurrentUserSTLYRevPAR)]]

NoMarketData == [adr |-> Null, occupancy |-> Null, revpar |-> Null]

\* lines 350-361: one returned row
resultRow(row, marketData) ==
  [MonthYear |-> toISOString(row.MonthYear),
   Current_ADR |-> row.Current_ADR,
   STLY_ADR |-> row.STLY_ADR,
   CurrentUserOccupancy |-> row.CurrentUserOccupancy,
   CurrentUserSTLYOccupancy |-> row.CurrentUserSTLYOccupancy,
   CurrentUserRevPAR |-> row.CurrentUserRevPAR,
   CurrentUserSTLYRevPAR |-> row.CurrentUserSTLYRevPAR,
   Market_ADR_Current |-> marketData.adr,
   MarketOccupancyCurrent |-> marketData.occupancy,
   MarketRevPARCurrent |-> marketData.revpar]

\* lines 377-388 (repeated at 393-404 and 409-420): the rows without market
\* info
withoutMarket(data) == [i \in 1..Len(data) |-> resultRow(data[i], NoMarketData)]

\* lines 303-313: the values of one field pushed under monthKey, in the
\* order of the breakdown
RECURSIVE collect(_, _, _)
collect(breakdown, key, field) ==
  IF breakdown = << >> THEN << >>
  ELSE LET item == Head(breakdown)
           rest == collect(Tail(breakdown), key, field)
       IN IF monthKey(newDate(item.date)) = key
            THEN <<item[field]>> \o rest
            ELSE rest

\* sum + val of JS for a number sum: undefined converts to NaN
plus(sum, val) == IF val = Undefined THEN NaN ELSE NumAdd(sum, val)

\* values.reduce((sum, val) => sum + val, 0)
RECURSIVE reduceSum(_, _)
reduceSum(values, sum) ==
  IF values = << >> THEN sum ELSE reduceSum(Tail(values), plus(sum, Head(values)))

\* lines 327-329: the average of the collected values, null when there are none
average(values) ==
  IF Len(values) > 0
    THEN NumDiv(reduceSum(values, FromInt(0)), FromInt(Len(values)))
    ELSE Null

\* lines 286-345: the market averages of the month of a row (every row's
\* month has an entry in marketDataMap, so the fallbacks of lines 343 and
\* 349 are never taken)
marketDataOf(row, breakdown) ==
  LET key == monthKey(row.MonthYear)
  IN [adr |-> average(collect(breakdown, key, "adr")),
      occupancy |-> average(collect(breakdown, key, "occupancy")),
      revpar |-> average(collect(breakdown, key, "revPar"))]

\* line 303: marketDataResponse.data?.breakdown, an empty list standing for
\* a missing one (the loop is skipped either way)
breakdownOf(resp) ==
  IF resp.data # Null /\ "breakdown" \in DOMAIN resp.data
    THEN resp.data.breakdown
    ELSE << >>

\* line 305: format throws a RangeError on an invalid date
formatThrows(breakdown) ==
  \E j \in 1..Len(breakdown) : newDate(breakdown[j].date) = InvalidDate

\* lines 347-362: resultsWithMarket
resultsWithMarket(data, breakdown) ==
  [i \in 1..Len(data) |-> resultRow(data[i], marketDataOf(data[i], breakdown))]

\* the market error is not caught
rethrowMarketError(data) == [throws |-> "market error"]

\* lines 374-389: catch (marketError)
catchMarketError(data) == [returns |-> withoutMarket(data)]

\* lines 390-405: the organization has no marketId
noMarketId(data) == [returns |-> withoutMarket(data)]

\* lines 406-421: catch (error)
catchUnexpected(data) == [returns |-> withoutMarket(data)]

\* lines 74-82: z.number().nullable() accepts null and any number but NaN (no
\* infinite value arises here)
numberNullable(x) == x = Null \/ IsFinite(x)

\* lines 72-83: comprehensiveAnalyticsOutputSchema
outputSchema(row) ==
  /\ numberNullable(row.Current_ADR)
  /\ numberNullable(row.STLY_ADR)
  /\ numberNullable(row.CurrentUserOccupancy)
  /\ numberNullable(row.CurrentUserSTLYOccupancy)
  /\ numberNullable(row.CurrentUserRevPAR)
  /\ numberNullable(row.CurrentUserSTLYRevPAR)
  /\ numberNullable(row.Market_ADR_Current)
  /\ numberNullable(row.MarketOccupancyCurrent)
  /\ numberNullable(row.MarketRevPARCurrent)

\* line 189: .output(z.array(...)) validates what the query function returns
respond(completion) ==
  IF "throws" \in DOMAIN completion THEN [error |-> completion.throws]
  ELSE IF \A i \in 1..Len(completion.returns) : outputSchema(completion.returns[i])
    THEN [rows |-> completion.returns]
    ELSE [error |-> "Output validation failed"]

\* the step a response leaves the request in
stepAfter(resp) == IF "error" \in DOMAIN resp THEN "threw" ELSE "returned"

MetricRow(date, adr, stlyAdr, occupancy, stlyOccupancy, revpar, stlyRevpar) ==
  [MonthYear |-> date, Current_ADR |-> adr, STLY_ADR |-> stlyAdr,
   CurrentUserOccupancy |-> occupancy, CurrentUserSTLYOccupancy |-> stlyOccupancy,
   CurrentUserRevPAR |-> revpar, CurrentUserSTLYRevPAR |-> stlyRevpar]

\* Rows of get_adr_occupancy_metrics from month f on: a month with every
\* metric, a month without reservations, a month of zeros (one of them a
\* plain number, the columns being typed any), a month without STLY values.
SampleMetricRows(f) ==
  { MetricRow(DateOf(f, 1), Decimal(120), Decimal(110), Decimal(50), Decimal(40),
              Decimal(60), Decimal(44)),
    MetricRow(DateOf(f + 1, 1), Null, Null, Null, Null, Null, Null),
    MetricRow(DateOf(f + 2, 1), PlainNumber(0), Decimal(95), Decimal(0), Decimal(30),
              Decimal(0), Null),
    MetricRow(DateOf(f + 3, 1), Decimal(130), Null, Decimal(25), Null, Decimal(33), Null) }

\* ORDER BY "MonthYear" ASC (line 229)
MetricTables(f) ==
  { t \in SeqsUpTo(SampleMetricRows(f), MaxMetricRows) :
      \A j \in 1..(Len(t) - 1) : t[j].MonthYear.day < t[j + 1].MonthYear.day }

DateText(k, dom) == [month |-> k, dom |-> dom]

BreakdownItem(date, adr, occupancy, revPar) ==
  [date |-> date, adr |-> adr, occupancy |-> occupancy, revPar |-> revPar]

\* Items of the market breakdown: two of month f, one of month f + 1, one of
\* a month no row has, one whose date does not parse, one without adr (the
\* response is not validated at run time).
SampleItems(f) ==
  { BreakdownItem(DateText(f, 1), FromInt(100), FromInt(60), FromInt(60)),
    BreakdownItem(DateText(f, 15), FromInt(201), FromInt(70), FromInt(140)),
    BreakdownItem(DateText(f + 1, 1), FromInt(90), FromInt(50), FromInt(45)),
    BreakdownItem(DateText(f + 5, 1), FromInt(80), FromInt(40), FromInt(32)),
    BreakdownItem([garbage |-> TRUE], FromInt(70), FromInt(30), FromInt(21)),
    BreakdownItem(DateText(f, 1), Undefined, FromInt(55), FromInt(50)) }

MarketResponses(f) ==
  { [data |-> Null], [data |-> [marketId |-> JsString("market-1")]] }
    \cup { [data |-> [marketId |-> JsString("market-1"), breakdown |-> b]] :
             b \in SeqsUpTo(SampleItems(f), MaxBreakdown) }

Organizations ==
  { Null, [marketId |-> Null], [marketId |-> JsString("")],
    [marketId |-> JsString("market-1")] }

InitAnalytics ==
  /\ firstMonth \in FirstMonths
  /\ step = "membership"
  /\ userOrg = NotComputed
  /\ rawData = NotComputed
  /\ outlookData = << >>
  /\ organization = NotComputed
  /\ marketDataResponse = NotComputed
  /\ result = NotComputed
  /\ reservations = << >>
  /\ periodKind = "endOfMonth"
  /\ propertyCount = 0
  /\ metrics = [i \in 1..NumMonths |-> NotComputed]
  /\ NoRequest
  /\ NoCalls64

\* lines 198-207: the membership check
CheckMembership ==
  /\ step = "membership"
  /\ \E found \in {Null, [userId |-> "user-1", organizationId |-> "org-1"]} :
       /\ userOrg' = found
       /\ IF found = Null
            THEN /\ result' = [error |-> "Organization not found or access denied"]
                 /\ step' = "threw"
            ELSE /\ step' = "metrics"
                 /\ UNCHANGED result
  /\ UNCHANGED <<rawData, outlookData, organization, marketDataResponse>>
  /\ UNCHANGED <<reservations, firstMonth, periodKind, propertyCount, metrics, requestVars,
                 vars64>>

\* lines 211-252: the metrics query and the conversion of its rows; a
\* rejected query is not caught
QueryMetrics ==
  /\ step = "metrics"
  /\ \/ /\ rawData' = [error |-> "query failed"]
        /\ result' = [error |-> "query failed"]
        /\ step' = "threw"
        /\ UNCHANGED outlookData
     \/ \E rows \in MetricTables(firstMonth) :
          /\ rawData' = [rows |-> rows]
          /\ outlookData' = transformRows(rows)
          /\ step' = "organization"
          /\ UNCHANGED result
  /\ UNCHANGED <<userOrg, organization, marketDataResponse>>
  /\ UNCHANGED <<reservations, firstMonth, periodKind, propertyCount, metrics, requestVars,
                 vars64>>

\* lines 262-283, 390-421: the organization lookup.  With a marketId the
\* request of line 274 is issued, unless outlookData is empty: reading
\* outlookData[0].MonthYear (line 278) then throws inside the inner try.
FindOrganization ==
  /\ step = "organization"
  /\ \/ /\ organization' = [error |-> "lookup failed"]
        /\ result' = respond(catchUnexpected(outlookData))
        /\ step' = stepAfter(result')
     \/ \E found \in Organizations :
          /\ organization' = found
          /\ IF found = Null \/ ~TruthyString(found.marketId)
               THEN /\ result' = respond(noMarketId(outlookData))
                    /\ step' = stepAfter(result')
               ELSE IF Len(outlookData) = 0
                 THEN /\ result' = respond(catchMarketError(outlookData))
                      /\ step' = stepAfter(result')
                 ELSE /\ step' = "market"
                      /\ UNCHANGED result
  /\ UNCHANGED <<userOrg, rawData, outlookData, marketDataResponse>>
  /\ UNCHANGED <<reservations, firstMonth, periodKind, propertyCount, metrics, requestVars,
                 vars64>>

\* lines 274-389: the market API answers or fails, the averages are built
\* and the rows returned
MarketResponded ==
  /\ step = "market"
  /\ \/ /\ marketDataResponse' = [error |-> "request failed"]
        /\ result' = respond(catchMarketError(outlookData))
     \/ \E resp \in MarketResponses(firstMonth) :
          /\ marketDataResponse' = resp
          /\ result' = IF formatThrows(breakdownOf(resp))
                         THEN respond(catchMarketError(outlookData))
                         ELSE respond([returns |->
                                resultsWithMarket(outlookData, breakdownOf(resp))])
  /\ step' = stepAfter(result')
  /\ UNCHANGED <<userOrg, rawData, outlookData, organization>>
  /\ UNCHANGED <<reservations, firstMonth, periodKind, propertyCount, metrics, requestVars,
                 vars64>>

NextAnalytics ==
  \/ CheckMembership
  \/ QueryMetrics
  \/ FindOrganization
  \/ MarketResponded

SpecAnalytics == InitAnalytics /\ [][NextAnalytics]_vars

(***************************************************************************)
(* Vocabulary of the claims about a request                                *)
(***************************************************************************)
Outlook == procedure = "getPortfolioMonthlyOutlook"

\* the callback of month i has returned its row
RowDone(i) == monthlyData[i] # NotComputed

MetricNames == {"adr", "occupancy", "revpar"}

\* the query of month i that assigns the named list has completed
HasFetched(i, name) == \E n \in 1..Len(events[i]) : events[i][n] = name

\* the number x equals (a - b) / b x 100 for the numbers a and b # 0
IsPercentageChange(x, a, b) ==
  IsFinite(x) /\ x.n * a.d * b.n = 100 * (a.n * b.d - b.n * a.d) * x.d

(***************************************************************************)
(* C11 - calculatePercentageChange returns null when the current value is  *)
(* null, the baseline is null or the baseline is exactly 0, and otherwise  *)
(* (current - baseline) / baseline x 100; a current value of 50 against a  *)
(* baseline of 0 gives null, not an infinite value.                        *)
(***************************************************************************)
C11_PercentageChange ==
  \A i \in 1..NumMonths : \A name \in MetricNames :
    ( Outlook /\ RowDone(i) ) =>
      LET entry == monthlyData[i].metrics[name]
          current == entry.currentProjection
          previous == entry.stlyActual
          percentage == entry.varianceVsStly.percentage
      IN IF current = Null \/ previous = Null \/ previous = FromInt(0)
           THEN percentage = Null
           ELSE /\ percentage # Null
                /\ IsPercentageChange(percentage, current, previous)

\* an occupancy of 50 has been compared with an occupancy of 0 a year before
C11_Witness ==
  \E i \in 1..NumMonths :
    /\ Outlook /\ RowDone(i)
    /\ monthlyData[i].metrics.occupancy.currentProjection = FromInt(50)
    /\ monthlyData[i].metrics.occupancy.stlyActual = FromInt(0)
    /\ monthlyData[i].metrics.occupancy.varianceVsStly.percentage = Null

(***************************************************************************)
(* C12 - for ADR, occupancy and RevPAR, the absolute variance against the  *)
(* same time last year (outlook) and the week-over-week pickup (outlook    *)
(* and pacing) equal current - baseline when both are non-null and are     *)
(* null when either is null; a baseline of 0 still gives a number.         *)
(***************************************************************************)
\* x is a - b for two numbers, null if either is null
IsDifference(x, a, b) ==
  IF a = Null \/ b = Null THEN x = Null
  ELSE x # Null /\ IsFinite(x) /\ NumAdd(x, b) = a

C12_AbsoluteChange ==
  \A i \in 1..NumMonths : \A name \in MetricNames :
    RowDone(i) =>
      LET m == monthMetrics[i] IN
      IF Outlook
        THEN LET entry == monthlyData[i].metrics[name] IN
             /\ IsDifference(entry.wowPickup, m.currentMetrics[name], m.weekAgoMetrics[name])
             /\ IsDifference(entry.varianceVsStly.absolute,
                             m.currentMetrics[name], m.stlyMetrics[name])
        ELSE IsDifference(monthlyData[i].wowPickup[name],
                          m.currentMetrics[name], m.weekAgoMetrics[name])

\* an occupancy of 50 has a variance of 50 against a year-ago occupancy of 0,
\* while the ADR has none against a year-ago ADR of null
C12_Witness ==
  \E i \in 1..NumMonths :
    /\ Outlook /\ RowDone(i)
    /\ monthMetrics[i].currentMetrics.occupancy = FromInt(50)
    /\ monthMetrics[i].stlyMetrics.occupancy = FromInt(0)
    /\ monthlyData[i].metrics.occupancy.varianceVsStly.absolute = FromInt(50)
    /\ monthMetrics[i].currentMetrics.adr # Null
    /\ monthMetrics[i].stlyMetrics.adr = Null
    /\ monthlyData[i].metrics.adr.varianceVsStly.absolute = Null

(***************************************************************************)
(* C13 - calculateMonthMetrics is total on malformed input: a reservation  *)
(* with endDate on or before startDate adds zero nights and zero revenue,  *)
(* a stay of no whole night adds zero revenue and divides nothing by zero, *)
(* a negative propertyCount gives a null occupancy and a null revpar, and  *)
(* in each case a result is returned whose totalNights is not negative.    *)
(* (The call has no throwing path: TLC evaluates every call to a value.)   *)
(***************************************************************************)
\* endDate is less than one day after startDate, or not after it at all
NoWholeNight(r) == isBefore(r.endDate, MkDate(r.startDate.day + 1, r.startDate.ms))

RECURSIVE WithWholeNights(_)
\* the reservations of the list that stay at least one whole night
WithWholeNights(list) ==
  IF list = << >> THEN << >>
  ELSE (IF NoWholeNight(Head(list)) THEN << >> ELSE <<Head(list)>>)
         \o WithWholeNights(Tail(list))

C13_TotalOnMalformedInput ==
  \A i \in 1..NumMonths :
    Computed(i) =>
      /\ metrics[i].totalNights >= 0
      /\ IsFinite(metrics[i].totalRevenue)
      /\ propertyCount < 0 => (metrics[i].occupancy = Null /\ metrics[i].revpar = Null)
      /\ (\A j \in 1..Len(reservations) : NoWholeNight(reservations[j]))
           => (metrics[i].totalNights = 0 /\ metrics[i].totalRevenue = FromInt(0))
      /\ metrics[i] = calculateMonthMetrics(WithWholeNights(reservations),
                                            startOfMonth(MonthAt(i)), PeriodEnd(MonthAt(i)),
                                            propertyCount)

\* January 2025 has been computed for a negative propertyCount from a stay
\* that ends before it starts and a stay of twelve hours, both priced
C13_Witness ==
  \E i \in 1..NumMonths :
    /\ Computed(i) /\ MonthAt(i) = 13 /\ propertyCount < 0 /\ Len(reservations) = 2
    /\ isBefore(reservations[1].endDate, reservations[1].startDate)
    /\ reservations[1].nightlySubtotal = Decimal(100)
    /\ reservations[2].startDate = DateOf(13, 10)
    /\ reservations[2].endDate.day = reservations[2].startDate.day
    /\ isAfter(reservations[2].endDate, reservations[2].startDate)
    /\ reservations[2].nightlySubtotal = Decimal(100)
    /\ metrics[i].totalNights = 0 /\ metrics[i].totalRevenue = FromInt(0)
    /\ metrics[i].occupancy = Null /\ metrics[i].revpar = Null

(***************************************************************************)
(* C14 - a reservation whose nightlySubtotal and totalPrice are both null  *)
(* adds zero to totalRevenue, still adds its nights in the period to       *)
(* totalNights, and does not stop or change the processing of the other    *)
(* reservations of the list.                                               *)
(***************************************************************************)
Unpriced(r) == r.nightlySubtotal = Null /\ r.totalPrice = Null

RECURSIVE PricedOnly(_)
\* the list without its unpriced reservations
PricedOnly(list) ==
  IF list = << >> THEN << >>
  ELSE (IF Unpriced(Head(list)) THEN << >> ELSE <<Head(list)>>) \o PricedOnly(Tail(list))

RECURSIVE UnpricedNights(_, _, _)
\* the nights the unpriced reservations of the list would be counted if priced
UnpricedNights(list, monthStart, monthEnd) ==
  IF list = << >> THEN 0
  ELSE (IF Unpriced(Head(list))
          THEN calculateMonthMetrics(<<[Head(list) EXCEPT !.totalPrice = Decimal(130)]>>,
                                     monthStart, monthEnd, 1).totalNights
          ELSE 0)
       + UnpricedNights(Tail(list), monthStart, monthEnd)

C14_UnpricedReservation ==
  \A i \in 1..NumMonths :
    Computed(i) =>
      LET rest == calculateMonthMetrics(PricedOnly(reservations), startOfMonth(MonthAt(i)),
                                        PeriodEnd(MonthAt(i)), propertyCount)
      IN /\ metrics[i].totalRevenue = rest.totalRevenue
         /\ metrics[i].totalNights
              = rest.totalNights + UnpricedNights(reservations, startOfMonth(MonthAt(i)),
                                                  PeriodEnd(MonthAt(i)))

\* June 2025 has been computed from an unpriced stay of 10 nights followed by
\* a stay of 14 nights priced 130
C14_Witness ==
  \E i \in 1..NumMonths :
    /\ Computed(i) /\ AsCalled /\ MonthAt(i) = 18 /\ Len(reservations) = 2
    /\ Unpriced(reservations[1]) /\ reservations[2].totalPrice = Decimal(130)
    /\ metrics[i].totalNights = 24
    /\ metrics[i].totalRevenue = FromInt(130)

(***************************************************************************)
(* C17 - the filter of each month's query (start within [monthStart,       *)
(* monthEnd], or end within it, or start before and end after it) selects  *)
(* every reservation of the organisation's properties that is not          *)
(* cancelled (nor declined), was booked by the cut-off and whose range     *)
(* [startDate, endDate) meets the month; what it selects beyond these      *)
(* (a stay that only touches the month's first instant, a stay that ends   *)
(* before it starts) is allocated zero nights and zero revenue.            *)
(***************************************************************************)
Eligible(row, bookedBy) ==
  /\ row.propertyId \in 1..propertyCount
  /\ row.status \notin {"cancelled", "declined"}
  /\ ~isAfter(row.bookedAt, bookedBy)

\* list is a query result for month k that misses no eligible row meeting the
\* month and whose other members are allocated nothing
SelectsOverlapping(list, bookedBy, k) ==
  /\ \A j \in 1..Len(db) :
       ( Eligible(db[j], bookedBy) /\ Intersects(db[j], k) )
         => \E n \in 1..Len(list) : list[n] = select(db[j])
  /\ \A n \in 1..Len(list) :
       ~Intersects(list[n], k)
         => LET alone == calculateMonthMetrics(<<list[n]>>, startOfMonth(k),
                                               endOfMonth(k), propertyCount)
            IN alone.totalNights = 0 /\ alone.totalRevenue = FromInt(0)

C17_FilterSelectsOverlapping ==
  \A i \in 1..NumMonths :
    /\ HasFetched(i, "currentReservations")
         => SelectsOverlapping(fetched[i].currentReservations, today, MonthAt(i))
    /\ HasFetched(i, "weekAgoReservations")
         => SelectsOverlapping(fetched[i].weekAgoReservations, sevenDaysAgo, MonthAt(i))
    /\ HasFetched(i, "stlyReservations")
         => SelectsOverlapping(fetched[i].stlyReservations, subYears(today),
                               stlyMonth(MonthAt(i)))

\* the current query of a month has returned a stay that ends on the month's
\* first day and, for two properties, a stay that spans the whole month
C17_Witness ==
  \E i \in 1..NumMonths :
    /\ stage = "months"
    /\ HasFetched(i, "currentReservations")
    /\ Len(fetched[i].currentReservations) = 2
    /\ fetched[i].currentReservations[1].endDate = startOfMonth(MonthAt(i))
    /\ isBefore(fetched[i].currentReservations[2].startDate, startOfMonth(MonthAt(i)))
    /\ isAfter(fetched[i].currentReservations[2].endDate, endOfMonth(MonthAt(i)))

(***************************************************************************)
(* C18 - in both procedures, for each month every reservation query of     *)
(* that month (current, week-ago and, in the outlook, STLY) has completed  *)
(* before calculateMonthMetrics is first called for that month, and no     *)
(* query of the month is issued once its calls have begun.                 *)
(***************************************************************************)
QueriesOf(proc) ==
  IF proc = "getPortfolioMonthlyOutlook"
    THEN {"currentReservations", "weekAgoReservations", "stlyReservations"}
    ELSE {"currentReservations", "weekAgoReservations"}

C18_QueriesBeforeMetrics ==
  \A i \in 1..NumMonths :
    /\ \A n \in 1..Len(events[i]) :
         events[i][n] = "calculateMonthMetrics"
           => /\ \A q \in QueriesOf(procedure) : \E m \in 1..(n - 1) : events[i][m] = q
              /\ \A m \in n..Len(events[i]) : events[i][m] = "calculateMonthMetrics"
    /\ monthMetrics[i] # NotComputed
         => /\ \A q \in QueriesOf(procedure) : HasFetched(i, q)
            /\ HasFetched(i, "calculateMonthMetrics")
    /\ Len(events[i]) <= 2 * Cardinality(QueriesOf(procedure))

\* the outlook has computed its second month after that month's three
\* queries while the first month still waits for its current query
C18_Witness ==
  /\ Outlook /\ NumMonths >= 2
  /\ pc[1] = "currentReservations"
  /\ monthMetrics[2] # NotComputed
  /\ events[2] = <<"currentReservations", "weekAgoReservations", "stlyReservations",
                   "calculateMonthMetrics", "calculateMonthMetrics",
                   "calculateMonthMetrics">>

(***************************************************************************)
(* C19 - the per-month computations of getPortfolioMonthlyOutlook run      *)
(* concurrently and share no mutable state: under every interleaving of    *)
(* their queries each month's metrics are those computed from that month's *)
(* own query results alone, and the returned list has one entry per month  *)
(* (NumMonths here, 12 in the source) in calendar order from the current   *)
(* month, whatever the order in which the months complete.                 *)
(***************************************************************************)
\* the lists the three queries of month i return
OwnLists(i) ==
  [currentReservations |-> queryCurrent(i), weekAgoReservations |-> queryWeekAgo(i),
   stlyReservations |-> queryStly(i)]

C19_IndependentMonths ==
  Outlook =>
    /\ \A i \in 1..NumMonths :
         monthMetrics[i] # NotComputed
           => /\ fetched[i] = OwnLists(i)
              /\ monthMetrics[i] = outlookMetrics(i, OwnLists(i))
              /\ monthlyData[i] = outlookRow(i, outlookMetrics(i, OwnLists(i)))
    /\ (stage = "returned" /\ propertyCount > 0)
         => /\ Len(response) = NumMonths
            /\ \A i \in 1..NumMonths :
                 /\ response[i].month = firstMonth + i - 1
                 /\ response[i] = monthlyData[i]

\* the outlook has returned after its months completed in reverse order, each
\* month with metrics of its own
C19_Witness ==
  /\ Outlook /\ stage = "returned" /\ propertyCount > 0 /\ NumMonths >= 2
  /\ completed[1] = NumMonths /\ completed[NumMonths] = 1
  /\ response[1].month = firstMonth
  /\ response[1].metrics.occupancy.currentProjection
       # response[2].metrics.occupancy.currentProjection

(***************************************************************************)
(* C20 - the week-over-week occupancy pickup is never negative: for every  *)
(* month the week-ago list (bookedAt <= today - 7 days) is contained in    *)
(* the current list (bookedAt <= today) under the same status and date     *)
(* filter, so the current totalNights is at least the week-ago totalNights *)
(* and occupancyWowPickup >= 0 whenever it is non-null; when no price is   *)
(* negative the same holds for revparWowPickup.                            *)
(***************************************************************************)
ContainedIn(short, long) ==
  \A n \in 1..Len(short) : \E m \in 1..Len(long) : long[m] = short[n]

NoNegativePrice(list) ==
  \A n \in 1..Len(list) :
    /\ list[n].nightlySubtotal # Null => list[n].nightlySubtotal.val >= 0
    /\ list[n].totalPrice # Null => list[n].totalPrice.val >= 0

\* the pickups of the row of month i
WowPickupOf(i) ==
  IF Outlook
    THEN [name \in MetricNames |-> monthlyData[i].metrics[name].wowPickup]
    ELSE monthlyData[i].wowPickup

NotNegative(x) == x # Null => (IsFinite(x) /\ x.n >= 0)

C20_PickupNotNegative ==
  \A i \in 1..NumMonths :
    RowDone(i) =>
      /\ ContainedIn(fetched[i].weekAgoReservations, fetched[i].currentReservations)
      /\ monthMetrics[i].currentMetrics.totalNights
           >= monthMetrics[i].weekAgoMetrics.totalNights
      /\ NotNegative(WowPickupOf(i).occupancy)
      /\ NoNegativePrice(fetched[i].currentReservations)
           => NotNegative(WowPickupOf(i).revpar)

\* a month had nights on the books a week ago and has gained nights and
\* revenue since
C20_Witness ==
  \E i \in 1..NumMonths :
    /\ RowDone(i)
    /\ Len(fetched[i].weekAgoReservations) = 1
    /\ Len(fetched[i].currentReservations) = 2
    /\ monthMetrics[i].weekAgoMetrics.totalNights > 0
    /\ WowPickupOf(i).occupancy # Null /\ WowPickupOf(i).occupancy.n > 0
    /\ WowPickupOf(i).revpar # Null /\ WowPickupOf(i).revpar.n > 0

(***************************************************************************)
(* C16 - order independence.  As claimed: for any permutation of the       *)
(* reservation list calculateMonthMetrics returns the same totalNights,    *)
(* totalRevenue, occupancy, adr and revpar.                                *)
(***************************************************************************)
BothComputed64 == metrics64.given # NotComputed /\ metrics64.permuted # NotComputed

C16_OrderIndependent ==
  BothComputed64 =>
    /\ metrics64.permuted.totalNights = metrics64.given.totalNights
    /\ metrics64.permuted.totalRevenue = metrics64.given.totalRevenue
    /\ metrics64.permuted.occupancy = metrics64.given.occupancy
    /\ metrics64.permuted.adr = metrics64.given.adr
    /\ metrics64.permuted.revpar = metrics64.given.revpar

\* the doubles x and y are at most n units in the last place apart
WithinUlps(x, y, n) ==
  \/ x = y
  \/ /\ x # Null /\ y # Null /\ x # Zero64 /\ y # Zero64
     /\ LET e == IF x.exp < y.exp THEN x.exp ELSE y.exp
            ax == BigShiftLeft(x.sig, x.exp - e)
            ay == BigShiftLeft(y.sig, y.exp - e)
        IN \E k \in 1..n : BigAdd(ax, <<k>>) = ay \/ BigAdd(ay, <<k>>) = ax

\* C16 as amended: totalNights and occupancy are the same for every
\* permutation; totalRevenue, adr and revpar are the same up to the rounding
\* of the floating-point sum (here: at most one unit in the last place per
\* reservation), and exactly the same for a list of at most two reservations.
C16_OrderIndependentUpToRounding ==
  BothComputed64 =>
    /\ metrics64.permuted.totalNights = metrics64.given.totalNights
    /\ metrics64.permuted.occupancy = metrics64.given.occupancy
    /\ \A name \in {"totalRevenue", "adr", "revpar"} :
         WithinUlps(metrics64.permuted[name], metrics64.given[name], Len(reservations))
    /\ Len(reservations) <= 2 => metrics64.permuted = metrics64.given

\* three stays have been aggregated in two different orders, with the same
\* nights and a different last digit of totalRevenue
C16_Witness ==
  /\ BothComputed64 /\ Len(reservations) = 3 /\ permuted # reservations
  /\ metrics64.given.totalNights = 6
  /\ metrics64.permuted.totalNights = 6
  /\ metrics64.permuted.totalRevenue # metrics64.given.totalRevenue

(***************************************************************************)
(* Vocabulary of the claim about getComprehensiveAnalytics                 *)
(***************************************************************************)
AnalyticsFinished == step \in {"returned", "threw"}

\* the membership check and the metrics query have succeeded
MetricsQueried == "rows" \in DOMAIN rawData

OrganizationLookupError == "error" \in DOMAIN organization

MissingMarketId ==
  \/ organization = Null
  \/ /\ "marketId" \in DOMAIN organization
     /\ (organization.marketId = Null \/ organization.marketId.string = "")

MarketApiError == "error" \in DOMAIN marketDataResponse

EmptyMetricsList == MetricsQueried /\ Len(rawData.rows) = 0

MarketFailure ==
  OrganizationLookupError \/ MissingMarketId \/ MarketApiError \/ EmptyMetricsList

\* the value of a column of the metrics query as a number
AsNumber(x) == IF x = Null THEN Null ELSE FromInt(x.val)

\* row i of the result carries the user's values of row i of the metrics query
UserValuesKept(i) ==
  LET row == rawData.rows[i]
      out == result.rows[i]
  IN /\ out.MonthYear.iso = <<row.MonthYear.day, row.MonthYear.ms>>
     /\ out.Current_ADR = AsNumber(row.Current_ADR)
     /\ out.STLY_ADR = AsNumber(row.STLY_ADR)
     /\ out.CurrentUserOccupancy = AsNumber(row.CurrentUserOccupancy)
     /\ out.CurrentUserSTLYOccupancy = AsNumber(row.CurrentUserSTLYOccupancy)
     /\ out.CurrentUserRevPAR = AsNumber(row.CurrentUserRevPAR)
     /\ out.CurrentUserSTLYRevPAR = AsNumber(row.CurrentUserSTLYRevPAR)

MarketFieldsNull(out) ==
  /\ out.Market_ADR_Current = Null
  /\ out.MarketOccupancyCurrent = Null
  /\ out.MarketRevPARCurrent = Null

\* the breakdown items the market API returned, none when it returned none
ReturnedItems ==
  IF /\ "data" \in DOMAIN marketDataResponse
     /\ marketDataResponse.data # Null
     /\ "breakdown" \in DOMAIN marketDataResponse.data
    THEN marketDataResponse.data.breakdown
    ELSE << >>

\* no returned item is dated in the month of row i of the metrics query
NoItemInMonthOf(i) ==
  \A j \in 1..Len(ReturnedItems) :
    "month" \in DOMAIN ReturnedItems[j].date =>
      MonthStartDay(ReturnedItems[j].date.month) + ReturnedItems[j].date.dom - 1
        \notin MonthStartDay(MonthIndexOf(rawData.rows[i].MonthYear.day))
                 .. (MonthStartDay(MonthIndexOf(rawData.rows[i].MonthYear.day) + 1) - 1)

(***************************************************************************)
(* C21 - in getComprehensiveAnalytics, once the membership check and the   *)
(* metrics query have succeeded, a failure in the market-data path (the    *)
(* organization lookup rejects, the organization or its marketId is        *)
(* missing, the market API call fails, or the metrics list is empty) does  *)
(* not make the procedure fail: it returns one row per metrics row, in the *)
(* same order, with the user's six ADR, occupancy and RevPAR values        *)
(* unchanged and the three market fields null; and in every returned list  *)
(* a month for which the market API returned no breakdown item has null    *)
(* market fields.                                                          *)
(***************************************************************************)
C21_MarketFailureTolerated ==
  /\ (AnalyticsFinished /\ MetricsQueried /\ MarketFailure) =>
       /\ step = "returned"
       /\ "rows" \in DOMAIN result
       /\ Len(result.rows) = Len(rawData.rows)
       /\ \A i \in 1..Len(rawData.rows) :
            UserValuesKept(i) /\ MarketFieldsNull(result.rows[i])
  /\ (AnalyticsFinished /\ "rows" \in DOMAIN result) =>
       \A i \in 1..Len(result.rows) :
         NoItemInMonthOf(i) => MarketFieldsNull(result.rows[i])

\* the market API call failed for a list of two or more metrics rows, one of
\* them with user values, and the request has returned
C21_Witness ==
  /\ AnalyticsFinished
  /\ MetricsQueried
  /\ MarketApiError
  /\ Len(rawData.rows) >= 2
  /\ \E i \in 1..Len(rawData.rows) : rawData.rows[i].Current_ADR # Null
  /\ "rows" \in DOMAIN result

====
